---- MODULE Spec2Model ----
(***************************************************************************)
(* A model of eqxvision/experimental.py: intermediate_layer_getter wraps   *)
(* selected layers of a model so that each wrapped layer's output is       *)
(* stored in an AuxData cell, and the returned IntermediateLayerGetter     *)
(* returns the model's output together with the cells' contents.           *)
(*                                                                         *)
(* A model is a set of layers at locations 0..NumLayers-1.  A Sequential   *)
(* model ("seq") runs them in order 0,1,...; a subclass of Sequential      *)
(* ("sub") is an instance of Sequential whose own __call__ runs them in an *)
(* order of its own; any other model ("tree") is user code that invokes    *)
(* its layers in an order of its own, possibly skipping or repeating some. *)
(* A selector's result is a sequence of locations (positional indices for  *)
(* instances of Sequential).                                               *)
(***************************************************************************)
EXTENDS Integers, Sequences, FiniteSets, TLC

VARIABLES status, kind, own, targets, slots, auxs, lastw, calls, ncalls

vars == <<status, kind, own, targets, slots, auxs, lastw, calls, ncalls>>

\* ------------------------------------------------------------- bounds
NumLayers == 2
MaxTargets == 2
MaxSteps == 2
MaxCalls == 2
MaxX == 1
ValMod == 5

\* ------------------------------------------------------------- domains
Locs == 0 .. (NumLayers - 1)
Inputs == 0 .. MaxX
Callers == {1, 2}
Kinds == {"seq", "sub", "tree"}

\* isinstance(model, nn.Sequential)
IsSequential(k) == k # "tree"

\* AuxData.data before any update (None)
None == -1

\* key=None, the default of every __call__
NoKey == 0

\* the randomness sources a caller may hand in: None or one key
Keys == {NoKey, 1}

\* what a selector may return: any sequence of at most MaxTargets locations,
\* the index NumLayers (one past the last layer) included
Selectors == UNION {[1 .. n -> 0 .. NumLayers] : n \in 0 .. MaxTargets}

\* ------------------------------------------------------------- helpers
NoDuplicates(s) == \A i, j \in 1 .. Len(s) : i # j => s[i] # s[j]

InRange(s) == \A i \in 1 .. Len(s) : s[i] \in Locs

Occurs(s, v) == \E i \in 1 .. Len(s) : s[i] = v

Count(s, v) == Cardinality({i \in 1 .. Len(s) : s[i] = v})

LastIndex(s, v) == CHOOSE i \in 1 .. Len(s) : s[i] = v /\ \A j \in (i + 1) .. Len(s) : s[j] # v

\* the orders in which a subclass of Sequential may run its layers in its own
\* __call__: each layer once
OwnOrders == {s \in [1 .. NumLayers -> Locs] : NoDuplicates(s)}

\* ------------------------------------------------------------- layers
\* self.layer(x, key=key): the layer at location l, a function of its input
\* and of the key it is handed
LayerApply(l, x, k) == (2 * x + l + 1 + k) % ValMod

\* the key Sequential hands to its i-th layer out of n: None when the call's
\* key is None, the i-th part of the split key otherwise
SplitKey(key, n, i) == IF key = NoKey THEN NoKey ELSE key + n + i

\* the key the model hands to the layer at location l
LayerKey(k, key, l) == IF IsSequential(k) THEN SplitKey(key, NumLayers, l) ELSE key

\* ------------------------------------------------------------- AuxData
AuxData == [data |-> None]

AuxUpdateKeepFirst(aux, x) == IF aux.data = None THEN [aux EXCEPT !.data = x] ELSE aux

AuxUpdate(aux, x) == [aux EXCEPT !.data = x]

\* ------------------------------------------------------------- IntermediateWrapper
WrapperStoresInput(l, aux, x, key) ==
    LET out == LayerApply(l, x, key)
    IN  [out |-> out, aux |-> AuxUpdate(aux, x)]

\* IntermediateWrapper.__call__ around the layer at l, bound to cell aux
IntermediateWrapper(l, aux, x, key) ==
    LET out == LayerApply(l, x, key)
    IN  [out |-> out, aux |-> AuxUpdate(aux, out)]

\* ------------------------------------------------------------- construction
\* [_make_intermediate_layer_wrapper() for _ in range(n)]: n fresh cells
MakeWrappers(n) == [i \in 1 .. n |-> AuxData]

\* auxs, wrappers = zip(*[...]): unpacking the empty zip raises ValueError
UnzipOk(n) == n > 0

\* the Sequential branch's loop from position idx on, updated_count wrappers
\* handed out so far; acc[l] is the number of the wrapper put at l, 0 for the
\* layer left as it was
RECURSIVE SequentialScan(_, _, _, _)
SequentialScan(sel, idx, updated_count, acc) ==
    IF idx >= NumLayers THEN acc
    ELSE IF Occurs(sel, idx)
         THEN SequentialScan(sel, idx + 1, updated_count + 1,
                             [acc EXCEPT ![idx] = updated_count + 1])
         ELSE SequentialScan(sel, idx + 1, updated_count, acc)

NoWrappers == [l \in Locs |-> 0]

SequentialReplace(sel) == SequentialScan(sel, 0, 0, NoWrappers)

\* eqx.tree_at(where, pytree, replace): the i-th location gets the i-th
\* wrapper; of a location named more than once the last replacement stays
TreeAtReplace(sel) ==
    [l \in Locs |-> IF Occurs(sel, l) THEN LastIndex(sel, l) ELSE 0]

\* the selector of a general model reads the layers themselves, so a location
\* that does not exist raises when the selector is applied
SelectorOk(k, sel) == IsSequential(k) \/ InRange(sel)

\* a where that names one node more than once: the library either raises
\* (uniq) or keeps the last replacement, depending on its version
TreeAtOk(sel, uniq) == uniq => NoDuplicates(sel)

\* intermediate_layer_getter(model, get_target_layers) up to the return
intermediate_layer_getter(k, sel, uniq) ==
    IF ~SelectorOk(k, sel) \/ ~UnzipOk(Len(sel))
    THEN [ok |-> FALSE, slots |-> NoWrappers, auxs |-> <<>>]
    ELSE IF IsSequential(k)
         THEN [ok |-> TRUE, slots |-> SequentialReplace(sel), auxs |-> MakeWrappers(Len(sel))]
         ELSE IF TreeAtOk(sel, uniq)
              THEN [ok |-> TRUE, slots |-> TreeAtReplace(sel), auxs |-> MakeWrappers(Len(sel))]
              ELSE [ok |-> FALSE, slots |-> NoWrappers, auxs |-> <<>>]

\* ------------------------------------------------------------- forward pass
\* one layer invocation inside self.model(x, key=key): through the wrapper
\* when one sits at l, the layer itself otherwise
InvokeAt(sl, cells, l, x, key) ==
    IF sl[l] = 0
    THEN [out |-> LayerApply(l, x, key), auxs |-> cells]
    ELSE LET r == IntermediateWrapper(l, cells[sl[l]], x, key)
         IN  [out |-> r.out, auxs |-> [cells EXCEPT ![sl[l]] = r.aux]]

ReadNextSkipNone(caps, aux) == IF aux.data = None THEN caps ELSE Append(caps, aux.data)

\* one iteration of [aux.data for aux in auxs]: the next cell's content is
\* appended to the list built so far
ReadNext(caps, aux) == Append(caps, aux.data)

\* [aux.data for aux in auxs] when no write falls between its reads
ReadOut(cells) == [i \in 1 .. Len(cells) |-> cells[i].data]

\* ------------------------------------------------------------- state machine
IdleCall == [pc |-> "idle", x |-> 0, key |-> NoKey, cur |-> 0, trace |-> <<>>,
             ri |-> 0, caps |-> <<>>, ov |-> FALSE]

Init ==
    /\ status = "new"
    /\ kind = "none"
    /\ own = <<>>
    /\ targets = <<>>
    /\ slots = NoWrappers
    /\ auxs = <<>>
    /\ lastw = <<>>
    /\ calls = [c \in Callers |-> IdleCall]
    /\ ncalls = 0

\* intermediate_layer_getter(model, get_target_layers)
Construct ==
    /\ status = "new"
    /\ \E k \in Kinds, sel \in Selectors, uniq \in BOOLEAN :
         LET r == intermediate_layer_getter(k, sel, uniq)
         IN  /\ kind' = k
             /\ own' \in (IF k = "sub" THEN OwnOrders ELSE {<<>>})
             /\ targets' = sel
             /\ status' = IF r.ok THEN "ok" ELSE "failed"
             /\ slots' = r.slots
             /\ auxs' = r.auxs
             /\ lastw' = [i \in 1 .. Len(r.auxs) |-> None]
    /\ UNCHANGED <<calls, ncalls>>

\* call c is inside self.model(x, key=key)
Running(c) == calls[c].pc = "running"

\* call c is inside the read-out of line 86
Reading(c) == calls[c].pc = "reading"

\* call c has been entered and has not returned
InFlight(c) == Running(c) \/ Reading(c)

Begin(c, x, key) ==
    /\ status = "ok"
    /\ ncalls < MaxCalls
    /\ ~InFlight(c)
    /\ LET other == \E d \in Callers \ {c} : InFlight(d)
       IN  calls' = [d \in Callers |->
                       IF d = c
                       THEN [pc |-> "running", x |-> x, key |-> key, cur |-> x,
                             trace |-> <<>>, ri |-> 0, caps |-> <<>>, ov |-> other]
                       ELSE IF InFlight(d) THEN [calls[d] EXCEPT !.ov = TRUE]
                       ELSE calls[d]]
    /\ ncalls' = ncalls + 1
    /\ UNCHANGED <<status, kind, own, targets, slots, auxs, lastw>>

\* IntermediateLayerGetter.__call__ entered while no other call is in flight
StartCall(c) ==
    /\ \A d \in Callers : ~InFlight(d)
    /\ \E x \in Inputs, key \in Keys : Begin(c, x, key)

\* the input of caller c's one call in the racing runs: the callers differ in it
RaceInput(c) == (c - 1) % (MaxX + 1)

\* IntermediateLayerGetter.__call__ entered, whatever the other caller does:
\* each caller makes one call, caller 1 the earlier one
StartCallRace(c) ==
    /\ calls[c].pc = "idle"
    /\ \A d \in Callers : d < c => calls[d].pc # "idle"
    /\ Begin(c, RaceInput(c), NoKey)

\* the locations the model may invoke next
NextLocs(c) ==
    IF IsSequential(kind)
    THEN {l \in Locs : l = Len(calls[c].trace)}
    ELSE {l \in Locs : Len(calls[c].trace) < MaxSteps}

\* self.model(x, key=key) invokes one of its layers
Forward(c) ==
    /\ Running(c)
    /\ \E l \in NextLocs(c) :
         LET k == LayerKey(kind, calls[c].key, l)
             r == InvokeAt(slots, auxs, l, calls[c].cur, k)
         IN  /\ calls' = [calls EXCEPT ![c].cur = r.out,
                                       ![c].trace = Append(calls[c].trace, l)]
             /\ auxs' = r.auxs
             /\ lastw' = IF slots[l] = 0 THEN lastw
                         ELSE [lastw EXCEPT ![slots[l]] = LayerApply(l, calls[c].cur, k)]
    /\ UNCHANGED <<status, kind, own, targets, slots, ncalls>>

\* the model is through: the rebuilt Sequential after its last layer, any
\* other model whenever its own code returns
ModelDone(c) == IsSequential(kind) => Len(calls[c].trace) = NumLayers

\* return out, [aux.data for aux in auxs]: the read-out reads one cell per
\* step, in the cells' order, and the call returns with the last of them (a
\* model that exists has at least one cell)
ReadCell(c) ==
    /\ (Running(c) /\ ModelDone(c)) \/ Reading(c)
    /\ LET i == calls[c].ri + 1
       IN  calls' = [calls EXCEPT
                       ![c].pc = IF i = Len(auxs) THEN "returned" ELSE "reading",
                       ![c].ri = i,
                       ![c].caps = ReadNext(calls[c].caps, auxs[i])]
    /\ UNCHANGED <<status, kind, own, targets, slots, auxs, lastw, ncalls>>

Next ==
    \/ Construct
    \/ StartCall(1)
    \/ Forward(1)
    \/ ReadCell(1)

Spec == Init /\ [][Next]_vars

NextRace ==
    \/ Construct
    \/ \E c \in Callers : StartCallRace(c)
    \/ \E c \in Callers : Forward(c)
    \/ \E c \in Callers : ReadCell(c)

SpecRace == Init /\ [][NextRace]_vars

\* ------------------------------------------------------------- the unwrapped model
\* model(x, key=key) of the model as it was handed in, along the path tr of
\* layer invocations: no wrapper, no cell
RECURSIVE OrigRun(_, _, _, _)
OrigRun(k, tr, x, key) ==
    IF tr = <<>> THEN x
    ELSE LET n == Len(tr)
         IN  LayerApply(tr[n], OrigRun(k, SubSeq(tr, 1, n - 1), x, key), LayerKey(k, key, tr[n]))

\* what the j-th layer invocation of call c returned in the unwrapped model
OutputOfStep(c, j) ==
    OrigRun(kind, SubSeq(calls[c].trace, 1, j), calls[c].x, calls[c].key)

\* what the last invocation of the layer at l returned during call c
LastOutput(c, l) == OutputOfStep(c, LastIndex(calls[c].trace, l))

\* every value the layer at l returned during call c
OutputsAt(c, l) ==
    {OutputOfStep(c, j) : j \in {n \in 1 .. Len(calls[c].trace) : calls[c].trace[n] = l}}

Returned(c) == calls[c].pc = "returned"

\* model(x, key=key) of the model as it was handed in, for call c: a subclass
\* of Sequential runs its own order, any other model the path the call took
OrigOutput(c) ==
    IF kind = "sub"
    THEN OrigRun(kind, own, calls[c].x, calls[c].key)
    ELSE OrigRun(kind, calls[c].trace, calls[c].x, calls[c].key)

\* a Sequential run through the model sl with cells, from position idx on
RECURSIVE RunPipeline(_, _, _, _, _)
RunPipeline(sl, cells, idx, x, key) ==
    IF idx >= NumLayers THEN [out |-> x, auxs |-> cells]
    ELSE LET r == InvokeAt(sl, cells, idx, x, SplitKey(key, NumLayers, idx))
         IN  RunPipeline(sl, r.auxs, idx + 1, r.out, key)

\* ------------------------------------------------------------- claims

\* C1: the first element a call returns is what the model as it was handed in
\* returns for the same input and key, for every model.
C1_PassThrough ==
    \A c \in Callers :
        Returned(c) => calls[c].cur = OrigOutput(c)

\* C2: entry i of the capture list is the output of the i-th target the
\* selector enumerated, when that target ran exactly once in the call; stated
\* for selectors naming distinct existing targets (C8 and C9 are the others).
C2_CaptureOrder ==
    \A c \in Callers :
        (Returned(c) /\ NoDuplicates(targets) /\ InRange(targets)) =>
            \A i \in 1 .. Len(targets) :
                Count(calls[c].trace, targets[i]) = 1 =>
                    calls[c].caps[i] = LastOutput(c, targets[i])

\* C3: every call returns exactly as many captures as the selector returned
\* targets at construction, however often each wrapped layer ran.
C3_CaptureCount ==
    \A c \in Callers : Returned(c) => Len(calls[c].caps) = Len(targets)

C3_Witness ==
    /\ Returned(1)
    /\ ncalls = MaxCalls
    /\ Len(targets) = 2
    /\ Len(calls[1].caps) = 2
    /\ \E i, j \in 1 .. 2 :
         /\ Count(calls[1].trace, targets[i]) = 0
         /\ calls[1].caps[i] = None
         /\ Count(calls[1].trace, targets[j]) >= 2

\* C4: with a selector that returns no targets the construction succeeds, and
\* every call returns the model's output and an empty capture list.
C4_EmptySelection ==
    (status # "new" /\ targets = <<>>) =>
        /\ status = "ok"
        /\ \A c \in Callers :
             Returned(c) =>
                 /\ calls[c].caps = <<>>
                 /\ calls[c].cur = OrigOutput(c)

\* C5: a wrapped layer that ran two or more times in a call has, in the
\* entry of its wrapper's cell, the output of its final invocation only.
C5_LastWriteWins ==
    \A c \in Callers :
        Returned(c) =>
            \A l \in Locs :
                (slots[l] # 0 /\ Count(calls[c].trace, l) >= 2) =>
                    calls[c].caps[slots[l]] = LastOutput(c, l)

C5_Witness ==
    /\ Returned(1)
    /\ \E l \in Locs :
         /\ slots[l] # 0
         /\ Count(calls[1].trace, l) >= 2
         /\ calls[1].caps[slots[l]] = LastOutput(1, l)
         /\ \E v \in OutputsAt(1, l) : v # calls[1].caps[slots[l]]

\* C6: a flat pipeline instrumented by positional indices returns the same
\* captures as the same pipeline instrumented through tree_at with the same
\* locations in the same order (stated for distinct existing indices).
C6_FlatGeneralEquivalence ==
    \A c \in Callers :
        (Returned(c) /\ kind = "seq" /\ NoDuplicates(targets) /\ InRange(targets)) =>
            LET g == intermediate_layer_getter("tree", targets, TRUE)
            IN  /\ g.ok
                /\ calls[c].caps =
                       ReadOut(RunPipeline(g.slots, g.auxs, 0, calls[c].x, calls[c].key).auxs)

\* cell i's wrapper was not invoked during call c
NotWritten(c, i) == \A l \in Locs : slots[l] = i => ~Occurs(calls[c].trace, l)

\* C7: the entry of a cell whose wrapper was not invoked during a call is
\* what that wrapper last wrote in an earlier call, None if it never wrote.
C7_StaleCaptures ==
    \A c \in Callers :
        Returned(c) =>
            \A i \in 1 .. Len(targets) :
                NotWritten(c, i) => calls[c].caps[i] = lastw[i]

C7_Witness ==
    /\ Returned(1)
    /\ ncalls = 2
    /\ \E i \in 1 .. Len(targets) :
         /\ targets[i] \in Locs
         /\ slots[targets[i]] = i
         /\ NotWritten(1, i)
         /\ calls[1].caps[i] # None
         /\ calls[1].caps[i] = lastw[i]

\* C8: a target the selector names twice is wrapped once per occurrence, so
\* after a call in which it ran every entry for it holds its output; stated
\* for the same index twice in a Sequential model.
C8_DuplicateTargets ==
    \A c \in Callers :
        (Returned(c) /\ kind = "seq" /\ InRange(targets) /\ ~NoDuplicates(targets)) =>
            \A i \in 1 .. Len(targets) :
                Occurs(calls[c].trace, targets[i]) =>
                    calls[c].caps[i] = LastOutput(c, targets[i])

\* C9: a selector naming a target the model does not have makes the
\* construction fail; no instrumented model is returned.
C9_BadSelectorFails ==
    (status # "new" /\ ~InRange(targets)) => status = "failed"

\* C10: a call that overlapped no other call returns, for every wrapped layer
\* that ran during it, a value that layer's wrapper wrote during that call.
C10_NoOverlapOwnWrites ==
    \A c \in Callers :
        (Returned(c) /\ ~calls[c].ov) =>
            \A l \in Locs :
                (slots[l] # 0 /\ Occurs(calls[c].trace, l)) =>
                    calls[c].caps[slots[l]] = LastOutput(c, l)

\* two overlapping calls: one returns, for a layer it ran itself, a value the
\* other call's wrapper invocation wrote
C10_Witness ==
    \E c \in Callers, d \in Callers :
        /\ c # d
        /\ Returned(c)
        /\ calls[c].ov
        /\ \E l \in Locs :
             /\ slots[l] # 0
             /\ Occurs(calls[c].trace, l)
             /\ calls[c].caps[slots[l]] \notin OutputsAt(c, l)
             /\ calls[c].caps[slots[l]] \in OutputsAt(d, l)

====
